---- MODULE Spec2Model ----
(***************************************************************************)
(* Team Onboarding settings panel of the dashboard: the settings           *)
(* synchronizer (handleUpdateTeamSettings), the internal-link form, the    *)
(* welcome-message toggle and the draft-based welcome-message editor.      *)
(*                                                                         *)
(* JavaScript objects are functions from their keys; a key that is not in  *)
(* the DOMAIN is an absent property.  `undefined` leaves are the value     *)
(* Undef.  The query data `settings` is NotLoaded (the empty object) until *)
(* the settings query has data.                                            *)
(***************************************************************************)
EXTENDS Integers, Sequences, FiniteSets, TLC

VARIABLES
    variant,                    \* which page composes the controls: "field" | "inline"
    org,                        \* useCurrentOrg().data?.id
    isOwner,                    \* useIsOwner()
    remote,                     \* the settings held by the settings store
    settings,                   \* useOrgSettingsQuery().data, the last-known snapshot
    internalLink,               \* useState of the internal-link input
    welcomeMessageEditorOpen,   \* useState of the editor modal
    message,                    \* draft message of the editor
    featuredMemberId,           \* draft featured member of the editor
    avatarUrl,                  \* avatar shown by the member picker
    inflight,                   \* remote writes issued and not yet resolved
    writes,                     \* number of remote write calls made so far
    nUpdate,                    \* number of handleUpdateTeamSettings calls so far
    outcome,                    \* how the latest handleUpdateTeamSettings call stands
    toasts,                     \* the notices raised so far
    log,                        \* the errors given to console.error so far
    ev,                         \* the latest user interaction
    draftTouched,               \* the draft was edited since the editor was last opened
    budget,                     \* how many user interactions the run may hold
    storageAvailable,           \* storageAvailable("localStorage")
    newUserOnboardingPending,   \* the localStorage entry of that name
    orgSettings,                \* the orgSettings prop of OrganizationJoinModal
    orgOnboardingPending,       \* useState of OrganizationJoinModal
    joinSeen                    \* what has happened to the join modal so far

vars == <<variant, org, isOwner, remote, settings, internalLink, welcomeMessageEditorOpen,
          message, featuredMemberId, avatarUrl, inflight, writes, nUpdate, outcome,
          toasts, log, ev, draftTouched, budget, storageAvailable,
          newUserOnboardingPending, orgSettings, orgOnboardingPending, joinSeen>>

\* the state of the organization join modal, which is not part of the settings page
joinVars == <<storageAvailable, newUserOnboardingPending, orgSettings,
              orgOnboardingPending, joinSeen>>

\* what no step of the settings page changes
env == <<variant, org, isOwner, budget, joinVars>>

\* the state of the settings page
pageVars == <<variant, org, isOwner, budget, remote, settings, internalLink,
              welcomeMessageEditorOpen, message, featuredMemberId, avatarUrl, inflight,
              writes, nUpdate, outcome, toasts, log, ev, draftTouched>>

\* ---------------------------------------------------------------- bounds

MaxEvents == 3
MaxInflight == 2
MaxEditorEvents == 4
MaxExampleEvents == 6
MaxInstances == 3

\* ---------------------------------------------------------------- values

Undef == "<undefined>"
NotLoaded == [k \in {} |-> Undef]
EmptyObject == [k \in {} |-> Undef]

Falsy(v) == v \in {Undef, ""}

Messages == {"", "Hi team!"}
Links == {"https://b"}
Members == {[userId |-> "m1", fullName |-> "Member One", avatarUrl |-> "a1.png"]}
Errors == {"network down"}

NoOrganizationError == "no organization selected"
PermissionError == "no organization settings change permission"
SetUpFirstNotice == "Please set up a welcome message first."
UpdatedNotice == "Organization settings updated"
FailedNotice(err) == "Failed to update organization settings: " \o err

\* { ...a, ...b }
Spread(a, b) == [k \in (DOMAIN a) \cup (DOMAIN b) |-> IF k \in DOMAIN b THEN b[k] ELSE a[k]]

\* obj?.key for a string leaf
Leaf(obj, key) == IF key \in DOMAIN obj THEN obj[key] ELSE Undef

\* settings?.onboardingSettings, as the object the optional chain goes on with
OnboardingOf(s) == IF "onboardingSettings" \in DOMAIN s THEN s.onboardingSettings ELSE EmptyObject

\* settings?.onboardingSettings?.welcomeMessage
WelcomeMessageOf(s) ==
    IF "welcomeMessage" \in DOMAIN OnboardingOf(s) THEN OnboardingOf(s).welcomeMessage ELSE EmptyObject

\* welcomeMessage?.enabled ?? false
EnabledOf(wm) == IF "enabled" \in DOMAIN wm THEN wm.enabled ELSE FALSE

\* settings?.onboardingSettings?.recommendedRepositories ?? []
RecommendedOf(s) ==
    IF "recommendedRepositories" \in DOMAIN OnboardingOf(s)
    THEN OnboardingOf(s).recommendedRepositories ELSE <<>>

\* ---------------------------------------------------------------- settings store

\* MemberDirectory: the avatar the server resolves for a featured member id
ResolvedAvatarUrl(id) ==
    IF \E m \in Members : m.userId = id
    THEN (CHOOSE m \in Members : m.userId = id).avatarUrl
    ELSE ""

\* featuredMemberResolvedAvatarUrl is derived by the server from featuredMemberId
ResolveAvatar(s) ==
    IF "welcomeMessage" \in DOMAIN OnboardingOf(s)
    THEN [s EXCEPT !.onboardingSettings.welcomeMessage =
            Spread(@, [featuredMemberResolvedAvatarUrl |->
                          ResolvedAvatarUrl(Leaf(@, "featuredMemberId"))])]
    ELSE s

\* UpdateOrganizationSettings: the submitted object is merged onto the stored one,
\* top-level field by top-level field
StoreApply(stored, submitted) == ResolveAvatar(Spread(stored, submitted))

WelcomeMessage(enabled, msg, member) ==
    [enabled |-> enabled, message |-> msg, featuredMemberId |-> member,
     featuredMemberResolvedAvatarUrl |-> ResolvedAvatarUrl(member)]

OrganizationSettings(link, wm) ==
    [otherSettings |-> "o0",
     onboardingSettings |->
        [internalLink |-> link, welcomeMessage |-> wm, recommendedRepositories |-> <<"repo1">>]]

InitialRemotes ==
    { OrganizationSettings("", WelcomeMessage(FALSE, "", "")),
      OrganizationSettings("https://a", WelcomeMessage(FALSE, "Hello", "m1")),
      OrganizationSettings("https://a", WelcomeMessage(TRUE, "Hello", "m1")) }

\* ---------------------------------------------------------------- initial state

\* `if (settings)`
Loaded(s) == s # NotLoaded

\* no organization join modal is around
NoJoinModal ==
    /\ storageAvailable = FALSE
    /\ newUserOnboardingPending = Undef
    /\ orgSettings = NotLoaded
    /\ orgOnboardingPending = FALSE
    /\ joinSeen = [instance |-> 0, pending |-> FALSE, dismissed |-> "no", notEnabled |-> FALSE]

\* the settings page as mounted, with room for `events` user interactions
Mounted(events) ==
    /\ NoJoinModal
    /\ variant \in {"field", "inline"}
    /\ org \in {Undef, "org1"}
    /\ isOwner \in BOOLEAN
    /\ remote \in InitialRemotes
    /\ settings \in {NotLoaded, remote}
    /\ internalLink = IF Loaded(settings) THEN Leaf(OnboardingOf(settings), "internalLink") ELSE Undef
    /\ welcomeMessageEditorOpen = FALSE
    /\ message = Leaf(WelcomeMessageOf(settings), "message")
    /\ featuredMemberId = Leaf(WelcomeMessageOf(settings), "featuredMemberId")
    /\ avatarUrl = Leaf(WelcomeMessageOf(settings), "featuredMemberResolvedAvatarUrl")
    /\ inflight = {}
    /\ writes = 0
    /\ nUpdate = 0
    /\ outcome = [call |-> 0, kind |-> "none", error |-> "", write |-> "none"]
    /\ toasts = {}
    /\ log = {}
    /\ ev = [n |-> 0, name |-> "mount", checked |-> FALSE]
    /\ draftTouched = FALSE
    /\ budget = events

Init == Mounted(MaxEvents)

\* ---------------------------------------------------------------- settings synchronizer

\* options?.throwMutateError
NoOptions == EmptyObject
OptionValues == {NoOptions, [throwMutateError |-> FALSE], [throwMutateError |-> TRUE]}
ThrowMutateError(options) == "throwMutateError" \in DOMAIN options /\ options.throwMutateError

\* updateTeamSettings.isLoading of the page: the latest mutation of the page's
\* mutation instance is pending
PageIsLoading == \E m \in inflight : m.id = writes

\* updateTeamSettings.isLoading of WelcomeMessageConfigurationField: its own mutation
\* instance, on which mutate is never called
FieldIsLoading == FALSE

\* the owner check made first
PreconditionErrorOwnerFirst ==
    IF ~isOwner THEN PermissionError
    ELSE IF Falsy(org) THEN NoOrganizationError
    ELSE ""

\* the owner check left out
PreconditionErrorNoOwnerCheck ==
    IF Falsy(org) THEN NoOrganizationError ELSE ""

\* the checks handleUpdateTeamSettings makes before it writes: the error it throws,
\* "" when it goes on
PreconditionError ==
    IF Falsy(org) THEN NoOrganizationError
    ELSE IF ~isOwner THEN PermissionError
    ELSE ""

\* { ...newSettings, ...settings }
MergedSettingsSnapshotWins(newSettings) == Spread(newSettings, settings)

\* a merge that goes one level down into onboardingSettings
MergedSettingsDeep(newSettings) ==
    IF "onboardingSettings" \in DOMAIN newSettings
    THEN Spread(Spread(settings, newSettings),
                [onboardingSettings |->
                    Spread(OnboardingOf(settings), newSettings.onboardingSettings)])
    ELSE Spread(settings, newSettings)

\* { ...settings, ...newSettings }, the argument of mutateAsync
MergedSettings(newSettings) == Spread(settings, newSettings)

\* a handleUpdateTeamSettings whose write takes the place of the writes in flight
HandleUpdateTeamSettingsLatestOnly(newSettings, options) ==
    /\ nUpdate' = nUpdate + 1
    /\ IF PreconditionError # ""
       THEN /\ outcome' = [call |-> nUpdate + 1, kind |-> "threw",
                           error |-> PreconditionError, write |-> "none"]
            /\ UNCHANGED <<writes, inflight>>
       ELSE /\ writes' = writes + 1
            /\ inflight' =
                  {[id |-> writes + 1, call |-> nUpdate + 1, via |-> "update",
                    origin |-> ev'.name,
                    obj |-> MergedSettings(newSettings),
                    partial |-> newSettings, snapshot |-> settings,
                    throwMutateError |-> ThrowMutateError(options)]}
            /\ outcome' = [call |-> nUpdate + 1, kind |-> "pending", error |-> "",
                           write |-> "pending"]
    /\ UNCHANGED <<toasts, log>>

\* handleUpdateTeamSettings up to the await of mutateAsync
HandleUpdateTeamSettings(newSettings, options) ==
    /\ nUpdate' = nUpdate + 1
    /\ IF PreconditionError # ""
       THEN /\ outcome' = [call |-> nUpdate + 1, kind |-> "threw",
                           error |-> PreconditionError, write |-> "none"]
            /\ UNCHANGED <<writes, inflight>>
       ELSE /\ writes' = writes + 1
            /\ inflight' = inflight \cup
                  {[id |-> writes + 1, call |-> nUpdate + 1, via |-> "update",
                    origin |-> ev'.name,
                    obj |-> MergedSettings(newSettings),
                    partial |-> newSettings, snapshot |-> settings,
                    throwMutateError |-> ThrowMutateError(options)]}
            /\ outcome' = [call |-> nUpdate + 1, kind |-> "pending", error |-> "",
                           write |-> "pending"]
    /\ UNCHANGED <<toasts, log>>

\* the user interaction that just happened
Event(name, checked) ==
    /\ ev.n < budget
    /\ ev' = [n |-> ev.n + 1, name |-> name, checked |-> checked]

CanIssue == Cardinality(inflight) < MaxInflight

CallUpdatePartials ==
    { [otherSettings |-> "o1"] }

\* handleUpdateTeamSettings called by any holder of the prop
CallUpdate ==
    \E partial \in CallUpdatePartials, options \in OptionValues :
        /\ CanIssue
        /\ Event("update", FALSE)
        /\ HandleUpdateTeamSettings(partial, options)
        /\ UNCHANGED <<env, draftTouched, remote, settings, internalLink,
                       welcomeMessageEditorOpen, message, featuredMemberId, avatarUrl>>

\* ---------------------------------------------------------------- internal link

\* LoadingButton: a loading button does not take clicks
LoadingButtonDisabled(loading, disabled) == loading \/ disabled

InternalLinkInputDisabled == PageIsLoading \/ ~isOwner

TypeInternalLink ==
    \E v \in Links :
        /\ ~InternalLinkInputDisabled
        /\ Event("typeLink", FALSE)
        /\ internalLink' = v
        /\ UNCHANGED <<env, draftTouched, remote, settings, welcomeMessageEditorOpen,
                       message, featuredMemberId, avatarUrl, inflight, writes, nUpdate,
                       outcome, toasts, log>>

InternalLinkSaveDisabled == LoadingButtonDisabled(PageIsLoading, ~isOwner)

\* handleUpdateInternalLink
HandleUpdateInternalLink ==
    /\ ~InternalLinkSaveDisabled
    /\ CanIssue
    /\ Event("submitLink", FALSE)
    /\ HandleUpdateTeamSettings([onboardingSettings |-> [internalLink |-> internalLink]], NoOptions)
    /\ UNCHANGED <<env, draftTouched, remote, settings, internalLink,
                   welcomeMessageEditorOpen, message, featuredMemberId, avatarUrl>>

\* ---------------------------------------------------------------- welcome message

\* the isLoading the toggle, the Edit button and the editor's Save are given
ControlsLoading == IF variant = "field" THEN FieldIsLoading ELSE PageIsLoading

\* a handleUpdateWelcomeMessage that starts from the editor's draft
HandleUpdateWelcomeMessageFromDraft(newSettings) ==
    HandleUpdateTeamSettings(
        [onboardingSettings |->
            [welcomeMessage |->
                Spread([message |-> message, featuredMemberId |-> featuredMemberId],
                       newSettings),
             recommendedRepositories |-> RecommendedOf(settings)]],
        NoOptions)

\* a handleUpdateWelcomeMessage that spreads the snapshot's onboardingSettings under
\* what it submits
HandleUpdateWelcomeMessageKeepsLink(newSettings) ==
    HandleUpdateTeamSettings(
        [onboardingSettings |->
            Spread(OnboardingOf(settings),
                   [welcomeMessage |-> Spread(WelcomeMessageOf(settings), newSettings),
                    recommendedRepositories |-> RecommendedOf(settings)])],
        NoOptions)

\* handleUpdateWelcomeMessage of WelcomeMessageConfigurationField
HandleUpdateWelcomeMessage(newSettings) ==
    HandleUpdateTeamSettings(
        [onboardingSettings |->
            [welcomeMessage |-> Spread(WelcomeMessageOf(settings), newSettings),
             recommendedRepositories |-> RecommendedOf(settings)]],
        NoOptions)

\* updateTeamSettings.mutate of the page whose switch writes by itself
MutateDirectly(submitted) ==
    /\ writes' = writes + 1
    /\ inflight' = inflight \cup
          {[id |-> writes + 1, call |-> 0, via |-> "mutate", origin |-> ev'.name,
            obj |-> submitted, partial |-> submitted, snapshot |-> settings,
            throwMutateError |-> FALSE]}
    /\ UNCHANGED <<nUpdate, outcome, toasts, log>>

\* the switch disabled only while loading
SwitchDisabledWhileLoading == ControlsLoading

SwitchDisabled == ~isOwner \/ ControlsLoading

\* what the switch reports when clicked: the opposite of its `checked` prop
SwitchChecked == ~EnabledOf(WelcomeMessageOf(settings))

\* the check for a message left out
MessageMissingNever(checked) == FALSE

\* `if (checked) { if (!settings?.onboardingSettings?.welcomeMessage?.message) ...`
MessageMissing(checked) ==
    checked /\ Falsy(Leaf(WelcomeMessageOf(settings), "message"))

\* onCheckedChange of the "Enabled" switch
OnCheckedChange ==
    /\ ~SwitchDisabled
    /\ Event("toggle", SwitchChecked)
    /\ IF MessageMissing(SwitchChecked)
       THEN /\ toasts' = toasts \cup {SetUpFirstNotice}
            /\ UNCHANGED <<inflight, writes, nUpdate, outcome, log>>
       ELSE /\ CanIssue
            /\ IF variant = "field"
               THEN HandleUpdateWelcomeMessage([enabled |-> SwitchChecked])
               ELSE MutateDirectly(
                        [onboardingSettings |->
                            [welcomeMessage |->
                                [enabled |-> SwitchChecked,
                                 message |-> Leaf(WelcomeMessageOf(settings), "message"),
                                 featuredMemberId |->
                                     Leaf(WelcomeMessageOf(settings), "featuredMemberId")]]])
    /\ UNCHANGED <<env, draftTouched, remote, settings, internalLink,
                   welcomeMessageEditorOpen, message, featuredMemberId, avatarUrl>>

EditDisabled == ~isOwner \/ ControlsLoading

\* the Edit button of WelcomeMessagePreview; the modal mounts its children, so the
\* member picker starts from the snapshot's resolved avatar
OpenEditor ==
    /\ ~EditDisabled
    /\ ~welcomeMessageEditorOpen
    /\ Event("edit", FALSE)
    /\ welcomeMessageEditorOpen' = TRUE
    /\ avatarUrl' = Leaf(WelcomeMessageOf(settings), "featuredMemberResolvedAvatarUrl")
    /\ draftTouched' = FALSE
    /\ UNCHANGED <<env, remote, settings, internalLink, message,
                   featuredMemberId, inflight, writes, nUpdate, outcome, toasts, log>>

\* onChange of the message textarea
TypeMessage ==
    \E v \in Messages :
        /\ welcomeMessageEditorOpen
        /\ Event("typeMessage", FALSE)
        /\ message' = v
        /\ draftTouched' = TRUE
        /\ UNCHANGED <<env, remote, settings, internalLink,
                       welcomeMessageEditorOpen, featuredMemberId, avatarUrl, inflight,
                       writes, nUpdate, outcome, toasts, log>>

\* a member item of OrgMemberInput
PickMember ==
    \E m \in Members :
        /\ welcomeMessageEditorOpen
        /\ Event("pickMember", FALSE)
        /\ featuredMemberId' = m.userId
        /\ avatarUrl' = m.avatarUrl
        /\ draftTouched' = TRUE
        /\ UNCHANGED <<env, remote, settings, internalLink,
                       welcomeMessageEditorOpen, message, inflight, writes, nUpdate,
                       outcome, toasts, log>>

\* a "Disable image" that leaves the shown avatar
DisableImageKeepsAvatar ==
    /\ welcomeMessageEditorOpen
    /\ Event("disableImage", FALSE)
    /\ featuredMemberId' = Undef
    /\ draftTouched' = TRUE
    /\ UNCHANGED <<env, remote, settings, internalLink, avatarUrl,
                   welcomeMessageEditorOpen, message, inflight, writes, nUpdate,
                   outcome, toasts, log>>

\* the "Disable image" item of OrgMemberInput
DisableImage ==
    /\ welcomeMessageEditorOpen
    /\ Event("disableImage", FALSE)
    /\ featuredMemberId' = Undef
    /\ avatarUrl' = Undef
    /\ draftTouched' = TRUE
    /\ UNCHANGED <<env, remote, settings, internalLink,
                   welcomeMessageEditorOpen, message, inflight, writes, nUpdate,
                   outcome, toasts, log>>

\* closing that also submits the draft
SetIsOpenFalseAndSubmit(name) ==
    /\ welcomeMessageEditorOpen
    /\ CanIssue
    /\ Event(name, FALSE)
    /\ welcomeMessageEditorOpen' = FALSE
    /\ HandleUpdateWelcomeMessage([message |-> message, featuredMemberId |-> featuredMemberId])
    /\ UNCHANGED <<env, draftTouched, remote, settings, internalLink, message,
                   featuredMemberId, avatarUrl>>

\* setIsOpen(false)
SetIsOpenFalse(name) ==
    /\ welcomeMessageEditorOpen
    /\ Event(name, FALSE)
    /\ welcomeMessageEditorOpen' = FALSE
    /\ UNCHANGED <<env, draftTouched, remote, settings, internalLink, message,
                   featuredMemberId, avatarUrl, inflight, writes, nUpdate, outcome,
                   toasts, log>>

\* the Cancel button
CancelEditor == SetIsOpenFalse("close")

\* onClose of the modal
CloseEditor == SetIsOpenFalse("close")

EditorSaveDisabled == LoadingButtonDisabled(ControlsLoading, ~isOwner)

\* a draft that is submitted as enabled
DraftWelcomeMessageEnabled ==
    [message |-> message, featuredMemberId |-> featuredMemberId, enabled |-> TRUE]

\* what updateWelcomeMessage puts together from the draft
DraftWelcomeMessage ==
    [message |-> message, featuredMemberId |-> featuredMemberId,
     enabled |-> EnabledOf(WelcomeMessageOf(settings))]

\* updateWelcomeMessage, the submit handler of the editor's form
UpdateWelcomeMessage ==
    /\ welcomeMessageEditorOpen
    /\ ~EditorSaveDisabled
    /\ CanIssue
    /\ Event("save", FALSE)
    /\ IF variant = "field"
       THEN HandleUpdateWelcomeMessage(DraftWelcomeMessage)
       ELSE HandleUpdateTeamSettings(
                [onboardingSettings |-> [welcomeMessage |-> DraftWelcomeMessage]], NoOptions)
    /\ UNCHANGED <<env, draftTouched, remote, settings, internalLink,
                   welcomeMessageEditorOpen, message, featuredMemberId, avatarUrl>>

\* ---------------------------------------------------------------- preview

\* settings?.onboardingSettings?.welcomeMessage?.featuredMemberResolvedAvatarUrl
PreviewAvatarUrl(s) == Leaf(WelcomeMessageOf(s), "featuredMemberResolvedAvatarUrl")

\* settings?.onboardingSettings?.welcomeMessage?.message
PreviewWelcomeMessage(s) == Leaf(WelcomeMessageOf(s), "message")

\* `{welcomeMessage && (<div ...>`: the block with the message is rendered
RendersMessageBlock(s) == ~Falsy(PreviewWelcomeMessage(s))

\* an avatar image rendered beside the block, not inside it
RendersAvatarImageOutsideBlock(s) == ~Falsy(PreviewAvatarUrl(s))

\* `{avatarUrl && <img ...>}` inside the block: the avatar image is rendered
RendersAvatarImage(s) == RendersMessageBlock(s) /\ ~Falsy(PreviewAvatarUrl(s))

\* ---------------------------------------------------------------- resolution of a write

\* a resolved write after which the editor is closed
MutateSuccessClosesEditor ==
    \E m \in inflight :
        /\ inflight' = inflight \ {m}
        /\ remote' = StoreApply(remote, m.obj)
        /\ IF m.via = "update"
           THEN /\ toasts' = toasts \cup {UpdatedNotice}
                /\ outcome' = [call |-> m.call, kind |-> "returned", error |-> "",
                               write |-> "ok"]
           ELSE UNCHANGED <<toasts, outcome>>
        /\ welcomeMessageEditorOpen' = FALSE
        /\ UNCHANGED <<env, draftTouched, settings, internalLink,
                       message, featuredMemberId, avatarUrl,
                       writes, nUpdate, log, ev>>

\* mutateAsync resolves: the store has applied the write
MutateSuccess ==
    \E m \in inflight :
        /\ inflight' = inflight \ {m}
        /\ remote' = StoreApply(remote, m.obj)
        /\ IF m.via = "update"
           THEN /\ toasts' = toasts \cup {UpdatedNotice}
                /\ outcome' = [call |-> m.call, kind |-> "returned", error |-> "",
                               write |-> "ok"]
           ELSE UNCHANGED <<toasts, outcome>>
        /\ UNCHANGED <<env, draftTouched, settings, internalLink,
                       welcomeMessageEditorOpen, message, featuredMemberId, avatarUrl,
                       writes, nUpdate, log, ev>>

\* a catch block that throws whatever the options say
CatchMutateErrorRethrow(m, err) ==
    /\ outcome' = [call |-> m.call, kind |-> "threw", error |-> err, write |-> "failed"]
    /\ UNCHANGED <<toasts, log>>

\* a catch block that never throws
CatchMutateErrorSwallow(m, err) ==
    /\ toasts' = toasts \cup {FailedNotice(err)}
    /\ log' = log \cup {err}
    /\ outcome' = [call |-> m.call, kind |-> "returned", error |-> err, write |-> "failed"]

\* the catch block of handleUpdateTeamSettings, for the call that issued m
CatchMutateError(m, err) ==
    IF m.throwMutateError
    THEN /\ outcome' = [call |-> m.call, kind |-> "threw", error |-> err, write |-> "failed"]
         /\ UNCHANGED <<toasts, log>>
    ELSE /\ toasts' = toasts \cup {FailedNotice(err)}
         /\ log' = log \cup {err}
         /\ outcome' = [call |-> m.call, kind |-> "returned", error |-> err,
                        write |-> "failed"]

\* a rejected write that is sent again
MutateFailureRetry ==
    \E m \in inflight, err \in Errors :
        /\ writes < budget
        /\ writes' = writes + 1
        /\ inflight' = (inflight \ {m}) \cup {[m EXCEPT !.id = writes + 1]}
        /\ IF m.via = "update"
           THEN CatchMutateError(m, err)
           ELSE UNCHANGED <<toasts, log, outcome>>
        /\ UNCHANGED <<env, draftTouched, remote, settings, internalLink,
                       welcomeMessageEditorOpen, message, featuredMemberId, avatarUrl,
                       nUpdate, ev>>

\* a rejected write after which the draft is set back to the snapshot
MutateFailureResetsDraft ==
    \E m \in inflight, err \in Errors :
        /\ inflight' = inflight \ {m}
        /\ IF m.via = "update"
           THEN CatchMutateError(m, err)
           ELSE UNCHANGED <<toasts, log, outcome>>
        /\ message' = Leaf(WelcomeMessageOf(settings), "message")
        /\ featuredMemberId' = Leaf(WelcomeMessageOf(settings), "featuredMemberId")
        /\ UNCHANGED <<env, draftTouched, remote, settings, internalLink,
                       welcomeMessageEditorOpen, avatarUrl, writes, nUpdate, ev>>

\* mutateAsync rejects
MutateFailure ==
    \E m \in inflight, err \in Errors :
        /\ inflight' = inflight \ {m}
        /\ IF m.via = "update"
           THEN CatchMutateError(m, err)
           ELSE UNCHANGED <<toasts, log, outcome>>
        /\ UNCHANGED <<env, draftTouched, remote, settings, internalLink,
                       welcomeMessageEditorOpen, message, featuredMemberId, avatarUrl,
                       writes, nUpdate, ev>>

\* the settings query gets new data; the effect on [settings] then sets the input
Refetch ==
    /\ settings # remote
    /\ settings' = remote
    /\ internalLink' = Leaf(OnboardingOf(remote), "internalLink")
    /\ UNCHANGED <<env, draftTouched, remote, welcomeMessageEditorOpen, message,
                   featuredMemberId, avatarUrl, inflight, writes, nUpdate, outcome,
                   toasts, log, ev>>

Next ==
    \/ CallUpdate
    \/ TypeInternalLink
    \/ HandleUpdateInternalLink
    \/ OnCheckedChange
    \/ OpenEditor
    \/ TypeMessage
    \/ PickMember
    \/ DisableImage
    \/ CancelEditor
    \/ CloseEditor
    \/ UpdateWelcomeMessage
    \/ MutateSuccess
    \/ MutateFailure
    \/ Refetch

Spec == Init /\ [][Next]_vars

\* an owner working in the welcome-message editor only
InitEditor ==
    /\ Mounted(MaxEditorEvents)
    /\ org = "org1"
    /\ isOwner

NextEditor ==
    \/ OpenEditor
    \/ TypeMessage
    \/ PickMember
    \/ DisableImage
    \/ CancelEditor
    \/ CloseEditor
    \/ UpdateWelcomeMessage
    \/ MutateSuccess
    \/ MutateFailure
    \/ Refetch

SpecEditor == InitEditor /\ [][NextEditor]_vars

\* the editor with what the event loop guarantees: a write that was issued settles, and
\* a query whose data is out of date gets the new data; the user owes no further
\* interaction
FairSpecEditor ==
    /\ SpecEditor
    /\ WF_vars(MutateSuccess \/ MutateFailure)
    /\ WF_vars(Refetch)

\* the settings the worked example starts from
ExampleSettings == OrganizationSettings("", WelcomeMessage(FALSE, "", ""))

\* an owner with the example's settings loaded, working on the welcome message
InitExample ==
    /\ Mounted(MaxExampleEvents)
    /\ org = "org1"
    /\ isOwner
    /\ remote = ExampleSettings
    /\ settings = remote

NextExample ==
    \/ OnCheckedChange
    \/ OpenEditor
    \/ TypeMessage
    \/ PickMember
    \/ DisableImage
    \/ CancelEditor
    \/ CloseEditor
    \/ UpdateWelcomeMessage
    \/ MutateSuccess
    \/ MutateFailure
    \/ Refetch

SpecExample == InitExample /\ [][NextExample]_vars

\* the user navigates away while a write is in flight: the page is unmounted and
\* takes no further interaction
NavigateAway ==
    /\ inflight # {}
    /\ ev.n < budget
    /\ ev' = [n |-> budget, name |-> "unmount", checked |-> FALSE]
    /\ UNCHANGED <<env, draftTouched, remote, settings, internalLink,
                   welcomeMessageEditorOpen, message, featuredMemberId, avatarUrl,
                   inflight, writes, nUpdate, outcome, toasts, log>>

\* new query data reaches a page that is still mounted
RefetchWhileMounted == ev.name # "unmount" /\ Refetch

\* an owner's page that may be left while writes are in flight
InitUnmount ==
    /\ Mounted(MaxEvents)
    /\ org = "org1"
    /\ isOwner

NextUnmount ==
    \/ CallUpdate
    \/ TypeInternalLink
    \/ HandleUpdateInternalLink
    \/ OnCheckedChange
    \/ OpenEditor
    \/ TypeMessage
    \/ PickMember
    \/ DisableImage
    \/ CancelEditor
    \/ CloseEditor
    \/ UpdateWelcomeMessage
    \/ NavigateAway
    \/ MutateSuccess
    \/ MutateFailure
    \/ RefetchWhileMounted

SpecUnmount == InitUnmount /\ [][NextUnmount]_vars

\* ---------------------------------------------------------------- organization join modal

\* `orgSettings?.onboardingSettings?.welcomeMessage?.enabled`
JoinEnabled(s) == EnabledOf(WelcomeMessageOf(s))

\* as InitialOrgOnboardingPending, but any stored value counts as pending
InitialOrgOnboardingPendingAnyValue(avail, entry) == avail /\ entry # Undef

\* initialOrgOnboardingPending ?? false: the entry read when storage is available,
\* undefined (hence false) when it is not
InitialOrgOnboardingPending(avail, entry) == avail /\ entry = "true"

\* `if (storageAvailable("localStorage")) localStorage.removeItem(...)`
RemoveItem(avail, entry) == IF avail THEN Undef ELSE entry

\* the settings the modal may be handed: none yet, or settings of the organization
JoinSettings ==
    {NotLoaded} \cup InitialRemotes
        \cup {OrganizationSettings("", WelcomeMessage(TRUE, "Hi team!", ""))}

\* what localStorage may hold under the key when the first instance is created
StoredValues == {Undef, "true", "false"}

\* the modal is rendered and open: not the early `return null`, and visible
JoinModalVisible == JoinEnabled(orgSettings) /\ orgOnboardingPending

\* the settings page is not what is on screen
NoSettingsPage ==
    /\ variant = "field"
    /\ org = "org1"
    /\ isOwner = FALSE
    /\ remote = ExampleSettings
    /\ settings = NotLoaded
    /\ internalLink = Undef
    /\ welcomeMessageEditorOpen = FALSE
    /\ message = Undef
    /\ featuredMemberId = Undef
    /\ avatarUrl = Undef
    /\ inflight = {}
    /\ writes = 0
    /\ nUpdate = 0
    /\ outcome = [call |-> 0, kind |-> "none", error |-> "", write |-> "none"]
    /\ toasts = {}
    /\ log = {}
    /\ ev = [n |-> 0, name |-> "mount", checked |-> FALSE]
    /\ draftTouched = FALSE
    /\ budget = 0

\* as DismissOrgOnboardingPending, but the localStorage entry is left in place
DismissOrgOnboardingPendingKeepsEntry ==
    /\ UNCHANGED newUserOnboardingPending
    /\ orgOnboardingPending' = FALSE

\* dismissOrgOnboardingPending
DismissOrgOnboardingPending ==
    /\ newUserOnboardingPending' = RemoveItem(storageAvailable, newUserOnboardingPending)
    /\ orgOnboardingPending' = FALSE

\* what an instance holds after its first render and the effect that follows it,
\* created with `entry` in localStorage and handed settings s
JoinModalCreated(avail, entry, s) ==
    [orgOnboardingPending |-> InitialOrgOnboardingPending(avail, entry) /\ JoinEnabled(s),
     newUserOnboardingPending |-> IF JoinEnabled(s) THEN entry ELSE RemoveItem(avail, entry)]

\* what has happened once instance number n has been created
JoinSeenCreated(avail, entry, s, n, before) ==
    [instance |-> n,
     pending |-> avail /\ entry = "true",
     dismissed |-> before.dismissed,
     notEnabled |-> before.notEnabled \/ ~JoinEnabled(s)]

\* the first instance of the modal
InitJoin ==
    /\ NoSettingsPage
    /\ storageAvailable \in BOOLEAN
    /\ \E entry \in StoredValues, s \in JoinSettings :
          /\ ~storageAvailable => entry = Undef
          /\ orgSettings = s
          /\ orgOnboardingPending =
                JoinModalCreated(storageAvailable, entry, s).orgOnboardingPending
          /\ newUserOnboardingPending =
                JoinModalCreated(storageAvailable, entry, s).newUserOnboardingPending
          /\ joinSeen = JoinSeenCreated(storageAvailable, entry, s, 1,
                                        [dismissed |-> "no", notEnabled |-> FALSE])

\* as SetOrgSettings, but without the effect that dismisses
SetOrgSettingsWithoutEffect ==
    \E s \in JoinSettings \ {orgSettings} :
       /\ orgSettings' = s
       /\ joinSeen' = [joinSeen EXCEPT !.notEnabled = @ \/ ~JoinEnabled(s)]
       /\ UNCHANGED <<pageVars, storageAvailable, newUserOnboardingPending,
                      orgOnboardingPending>>

\* the parent hands the modal other settings: it renders again and the effect runs
SetOrgSettings ==
    \E s \in JoinSettings \ {orgSettings} :
       /\ orgSettings' = s
       /\ IF JoinEnabled(s)
             THEN UNCHANGED <<newUserOnboardingPending, orgOnboardingPending>>
             ELSE DismissOrgOnboardingPending
       /\ joinSeen' = [joinSeen EXCEPT !.notEnabled = @ \/ ~JoinEnabled(s)]
       /\ UNCHANGED <<pageVars, storageAvailable>>

\* the Get Started button of the open modal
GetStarted ==
    /\ JoinModalVisible
    /\ DismissOrgOnboardingPending
    /\ joinSeen' = [joinSeen EXCEPT !.dismissed = "Get Started"]
    /\ UNCHANGED <<pageVars, storageAvailable, orgSettings>>

\* the open modal is closed (onClose)
OnCloseJoinModal ==
    /\ JoinModalVisible
    /\ DismissOrgOnboardingPending
    /\ joinSeen' = [joinSeen EXCEPT !.dismissed = "onClose"]
    /\ UNCHANGED <<pageVars, storageAvailable, orgSettings>>

\* the instance goes away and a later one is created, reading localStorage afresh
RecreateJoinModal ==
    /\ joinSeen.instance < MaxInstances
    /\ \E s \in JoinSettings :
          LET created == JoinModalCreated(storageAvailable, newUserOnboardingPending, s) IN
          /\ orgSettings' = s
          /\ orgOnboardingPending' = created.orgOnboardingPending
          /\ newUserOnboardingPending' = created.newUserOnboardingPending
          /\ joinSeen' = JoinSeenCreated(storageAvailable, newUserOnboardingPending, s,
                                         joinSeen.instance + 1, joinSeen)
    /\ UNCHANGED <<pageVars, storageAvailable>>

NextJoin ==
    \/ SetOrgSettings
    \/ GetStarted
    \/ OnCloseJoinModal
    \/ RecreateJoinModal

SpecJoin == InitJoin /\ [][NextJoin]_vars

\* ---------------------------------------------------------------- properties

\* the step is user interaction `name`
Interaction(name) == ev'.n = ev.n + 1 /\ ev'.name = name

\* the step is the resolution of write m, which ended as `write`
Resolved(m, write) ==
    /\ m \in inflight
    /\ m \notin inflight'
    /\ m.via = "update"
    /\ outcome'.call = m.call
    /\ outcome'.write = write

SnapshotMessage == Leaf(WelcomeMessageOf(settings), "message")

\* the same text, an undefined one and an empty one being both no text
SameText(a, b) == (Falsy(a) /\ Falsy(b)) \/ a = b

\* C1: switching the toggle to enabled while the snapshot's message is empty or
\* undefined submits nothing, leaves the remote settings as they were and raises the
\* notice "Please set up a welcome message first."
C1_EnableWithoutMessageBlocked ==
    [][(Interaction("toggle") /\ ev'.checked /\ Falsy(SnapshotMessage))
        => /\ inflight' = inflight
           /\ writes' = writes
           /\ nUpdate' = nUpdate
           /\ remote' = remote
           /\ SetUpFirstNotice \in toasts']_vars

C1_Witness ==
    /\ ev.name = "toggle"
    /\ ev.checked
    /\ Falsy(SnapshotMessage)
    /\ SetUpFirstNotice \in toasts
    /\ writes = 0

\* C2: a successful editor save leaves the remote `enabled` flag as it was, also when
\* the snapshot is not loaded or is stale
C2_SaveKeepsRemoteEnabled ==
    [][\A m \in inflight :
        (m.origin = "save" /\ Resolved(m, "ok"))
        => EnabledOf(WelcomeMessageOf(remote')) = EnabledOf(WelcomeMessageOf(remote))]_vars

\* C3: after the draft was edited and the editor cancelled or closed, the draft shown
\* at the next opening is the remote message and featured member
C3_CancelDiscardsDraft ==
    [][(ev.name = "close" /\ draftTouched /\ Interaction("edit"))
        => /\ SameText(message', Leaf(WelcomeMessageOf(remote'), "message"))
           /\ SameText(featuredMemberId',
                       Leaf(WelcomeMessageOf(remote'), "featuredMemberId"))]_vars

\* C4: typing in the draft, picking or clearing the featured member, Cancel and
\* closing the modal call neither the synchronizer nor the store and leave the remote
\* settings alone
C4_OnlySaveWrites ==
    [][(\E name \in {"typeMessage", "pickMember", "disableImage", "close"} : Interaction(name))
        => /\ inflight' = inflight
           /\ writes' = writes
           /\ nUpdate' = nUpdate
           /\ remote' = remote]_vars

C4_Witness ==
    /\ ev.name = "close"
    /\ draftTouched
    /\ ~welcomeMessageEditorOpen
    /\ writes = 0

\* C5: handleUpdateTeamSettings called with no organization selected makes no remote
\* write and throws "no organization selected"
C5_NoOrganizationThrows ==
    [][(nUpdate' = nUpdate + 1 /\ Falsy(org))
        => /\ inflight' = inflight
           /\ writes' = writes
           /\ outcome' = [call |-> nUpdate', kind |-> "threw",
                          error |-> NoOrganizationError, write |-> "none"]]_vars

C5_Witness ==
    /\ Falsy(org)
    /\ nUpdate > 0
    /\ outcome.kind = "threw"
    /\ outcome.error = NoOrganizationError

\* C6: handleUpdateTeamSettings called by a non-owner, with an organization selected,
\* makes no remote write and throws "no organization settings change permission"
C6_NonOwnerThrows ==
    [][(nUpdate' = nUpdate + 1 /\ ~Falsy(org) /\ ~isOwner)
        => /\ inflight' = inflight
           /\ writes' = writes
           /\ outcome' = [call |-> nUpdate', kind |-> "threw",
                          error |-> PermissionError, write |-> "none"]]_vars

C6_Witness ==
    /\ ~Falsy(org)
    /\ ~isOwner
    /\ nUpdate > 0
    /\ outcome.kind = "threw"
    /\ outcome.error = PermissionError

\* C7: for a non-owner every control that can submit an update is disabled, and no
\* remote write is ever made
C7_NonOwnerControlsDisabled ==
    ~isOwner =>
        /\ InternalLinkInputDisabled
        /\ InternalLinkSaveDisabled
        /\ SwitchDisabled
        /\ EditDisabled
        /\ EditorSaveDisabled
        /\ ~welcomeMessageEditorOpen
        /\ writes = 0
        /\ inflight = {}

C7_Witness ==
    /\ ~isOwner
    /\ Loaded(settings)
    /\ ev.n > 0
    /\ writes = 0

\* C8: the object handleUpdateTeamSettings submits has, for every top-level field of
\* the partial, the partial's value, and for every other top-level field of the
\* snapshot, the snapshot's value, and no other field
C8_SubmitsShallowMerge ==
    \A m \in inflight :
        m.via = "update" =>
            /\ DOMAIN m.obj = (DOMAIN m.snapshot) \cup (DOMAIN m.partial)
            /\ \A k \in DOMAIN m.partial : m.obj[k] = m.partial[k]
            /\ \A k \in (DOMAIN m.snapshot) \ (DOMAIN m.partial) : m.obj[k] = m.snapshot[k]

C8_Witness ==
    \E m \in inflight :
        /\ m.via = "update"
        /\ Loaded(m.snapshot)
        /\ "otherSettings" \in DOMAIN m.partial
        /\ m.obj.otherSettings # m.snapshot.otherSettings
        /\ m.obj.onboardingSettings = m.snapshot.onboardingSettings

\* C9 as claimed: the object sent by the internal-link submit still carries the
\* snapshot's welcomeMessage
C9_SubmitKeepsWelcomeMessage ==
    \A m \in inflight :
        m.origin = "submitLink" => WelcomeMessageOf(m.obj) = WelcomeMessageOf(m.snapshot)

\* C9 as amended: the object sent by the internal-link submit has an
\* onboardingSettings that is the submitted { internalLink } alone, and every other
\* top-level field of the snapshot as the snapshot has it
C9_SubmitReplacesOnboardingSettings ==
    \A m \in inflight :
        m.origin = "submitLink" =>
            /\ DOMAIN m.obj.onboardingSettings = {"internalLink"}
            /\ m.obj.onboardingSettings = m.partial.onboardingSettings
            /\ \A k \in (DOMAIN m.snapshot) \ {"onboardingSettings"} : m.obj[k] = m.snapshot[k]

C9_Witness ==
    \E m \in inflight :
        /\ m.origin = "submitLink"
        /\ Loaded(m.snapshot)
        /\ "welcomeMessage" \in DOMAIN OnboardingOf(m.snapshot)
        /\ m.obj.onboardingSettings.internalLink = "https://b"
        /\ m.obj.otherSettings = m.snapshot.otherSettings

\* C10: when the remote write fails and throwMutateError is not set, the call returns
\* normally, the failure notice with the error text is raised, the error is logged
\* and no success notice is raised
C10_FailureSwallowed ==
    [][\A m \in inflight :
        (~m.throwMutateError /\ Resolved(m, "failed"))
        => /\ outcome'.kind = "returned"
           /\ FailedNotice(outcome'.error) \in toasts'
           /\ outcome'.error \in log'
           /\ (UpdatedNotice \in toasts' => UpdatedNotice \in toasts)]_vars

C10_Witness ==
    /\ outcome.write = "failed"
    /\ outcome.kind = "returned"
    /\ FailedNotice("network down") \in toasts
    /\ "network down" \in log
    /\ UpdatedNotice \notin toasts

\* C11: when the remote write fails and throwMutateError is set, the call throws the
\* error the write failed with, and raises no notice and logs nothing
C11_FailureRethrown ==
    [][\A m \in inflight :
        (m.throwMutateError /\ Resolved(m, "failed"))
        => /\ outcome'.kind = "threw"
           /\ outcome'.error \in Errors
           /\ toasts' = toasts
           /\ log' = log]_vars

C11_Witness ==
    /\ ev.name = "update"
    /\ outcome.write = "failed"
    /\ outcome.kind = "threw"
    /\ outcome.error = "network down"
    /\ toasts = {}
    /\ log = {}

\* the controls whose handlers submit through handleUpdateTeamSettings and await it
\* without a catch of their own
ControlEvents == {"submitLink", "toggle", "save"}

\* C12: a failure of an update triggered by the internal-link submit, the toggle or
\* the editor's Save is not thrown out of handleUpdateTeamSettings into the control's
\* handler, and ends in a notice: the "set up first" notice for the toggle's empty
\* message, the failure notice for a failed remote write
C12_FailuresHandledAtControl ==
    [][/\ ((\E name \in ControlEvents : Interaction(name)) /\ nUpdate' = nUpdate + 1)
            => outcome'.kind # "threw"
       /\ (Interaction("toggle") /\ ev'.checked /\ Falsy(SnapshotMessage))
            => SetUpFirstNotice \in toasts'
       /\ \A m \in inflight :
            (m.origin \in ControlEvents /\ Resolved(m, "failed"))
            => /\ outcome'.kind = "returned"
               /\ FailedNotice(outcome'.error) \in toasts']_vars

\* C13: a remote write through handleUpdateTeamSettings is made only by the step of a
\* new call that passed the checks, one write for the call; the step in which a write
\* fails makes no write; so where every write goes through handleUpdateTeamSettings
\* there are never more writes than calls that passed the checks
C13_AtMostOneWritePerCall ==
    [][/\ writes' \in {writes, writes + 1}
       /\ Cardinality(inflight' \ inflight) = writes' - writes
       /\ \A m \in inflight' \ inflight :
            m.via = "update" =>
                /\ nUpdate' = nUpdate + 1
                /\ m.call = nUpdate'
                /\ PreconditionError = ""
       /\ (\E m \in inflight : Resolved(m, "failed")) =>
                /\ writes' = writes
                /\ inflight' \subseteq inflight
       /\ variant = "field" =>
                writes' <= (IF PreconditionError = "" THEN nUpdate' ELSE 0)]_vars

C13_Witness ==
    /\ nUpdate = 2
    /\ writes = 2
    /\ outcome.call = 1
    /\ outcome.write = "failed"
    /\ Cardinality(inflight) = 1

\* C14: when the editor is opened while the snapshot is the remote settings, the draft
\* shown is the remote message and featured member, also when the settings were not
\* loaded when the editor component was created or have changed since
C14_OpenCopiesRemote ==
    [][(Interaction("edit") /\ settings = remote)
        => /\ SameText(message', Leaf(WelcomeMessageOf(remote'), "message"))
           /\ SameText(featuredMemberId',
                       Leaf(WelcomeMessageOf(remote'), "featuredMemberId"))]_vars

\* C15: after Save was pressed in the open editor, the editor gets closed
C15_SaveClosesEditor ==
    (ev.name = "save" /\ welcomeMessageEditorOpen) ~> ~welcomeMessageEditorOpen

\* C16: once the settings are loaded, a later change of the snapshot leaves an
\* internal-link input that holds a typed and not yet submitted value as it is
C16_RefetchKeepsTypedLink ==
    [][(/\ Loaded(settings)
        /\ internalLink # Leaf(OnboardingOf(settings), "internalLink")
        /\ settings' # settings)
        => internalLink' = internalLink]_vars

\* C17: a toggle that is not stopped by the check for a message submits once, in the
\* same step, and what it submits has a welcomeMessage whose `enabled` is the new
\* switch value and whose message and featured member are the snapshot's, whatever
\* the editor's draft holds
C17_ToggleSubmitsSnapshotMessage ==
    [][(Interaction("toggle") /\ ~(ev'.checked /\ Falsy(SnapshotMessage)))
        => /\ variant = "field" => (nUpdate' = nUpdate + 1 /\ outcome'.call = nUpdate')
           /\ variant = "inline" => writes' = writes + 1
           /\ (variant = "inline" \/ PreconditionError = "")
                => Cardinality(inflight' \ inflight) = 1
           /\ \A m \in inflight' \ inflight :
                /\ m.origin = "toggle"
                /\ "welcomeMessage" \in DOMAIN OnboardingOf(m.partial)
                /\ WelcomeMessageOf(m.partial).enabled = ev'.checked
                /\ Leaf(WelcomeMessageOf(m.partial), "message") = SnapshotMessage
                /\ Leaf(WelcomeMessageOf(m.partial), "featuredMemberId")
                        = Leaf(WelcomeMessageOf(settings), "featuredMemberId")]_vars

C17_Witness ==
    \E m \in inflight :
        /\ m.origin = "toggle"
        /\ ev.name = "toggle"
        /\ message = "Hi team!"
        /\ WelcomeMessageOf(m.partial).message = "Hello"
        /\ WelcomeMessageOf(m.partial).featuredMemberId = "m1"
        /\ WelcomeMessageOf(m.partial).enabled = ev.checked

\* C18: the step in which an editor save fails, be it the save itself stopped by a
\* check of handleUpdateTeamSettings or the later rejection of its write, leaves the
\* draft message and the draft featured member as they were
C18_FailedSaveKeepsDraft ==
    [][(\/ (Interaction("save") /\ nUpdate' = nUpdate + 1 /\ outcome'.kind = "threw")
        \/ \E m \in inflight : m.origin = "save" /\ Resolved(m, "failed"))
        => /\ message' = message
           /\ featuredMemberId' = featuredMemberId]_vars

C18_Witness ==
    /\ ev.name = "save"
    /\ outcome.write = "failed"
    /\ draftTouched
    /\ message = "Hi team!"
    /\ ~SameText(message, SnapshotMessage)

\* message, featured member and enabled flag of a welcome message
ShownFields(wm) ==
    [message |-> Leaf(wm, "message"), featuredMemberId |-> Leaf(wm, "featuredMemberId"),
     enabled |-> EnabledOf(wm)]

\* the remote welcome message after step 2 of the worked example
ExampleSaved == [message |-> "Hi team!", featuredMemberId |-> "m1", enabled |-> FALSE]

\* the step is the store taking write m: handleUpdateTeamSettings saw it succeed, or,
\* for a write the switch made by itself, the remote settings changed
Applied(m) ==
    /\ m \in inflight
    /\ m \notin inflight'
    /\ \/ Resolved(m, "ok")
       \/ m.via = "mutate" /\ remote' # remote

\* C19: (1) with the example's settings as remote settings and snapshot, a toggle makes
\* no write, leaves the remote settings alone and raises the "set up first" notice;
\* (2) a save of the draft "Hi team!" / m1 made from that snapshot, once the store
\* took it, makes the remote welcome message "Hi team!" / m1 / not enabled; (3) a
\* toggle made from a snapshot with that welcome message, once the store took it,
\* makes the remote welcome message "Hi team!" / m1 / enabled
C19_WorkedExample ==
    [][/\ (Interaction("toggle") /\ settings = ExampleSettings /\ remote = ExampleSettings)
            => /\ remote' = remote
               /\ writes' = writes
               /\ inflight' = inflight
               /\ SetUpFirstNotice \in toasts'
       /\ \A m \in inflight :
            (/\ m.origin = "save"
             /\ m.snapshot = ExampleSettings
             /\ remote = ExampleSettings
             /\ Leaf(WelcomeMessageOf(m.partial), "message") = "Hi team!"
             /\ Leaf(WelcomeMessageOf(m.partial), "featuredMemberId") = "m1"
             /\ Applied(m))
            => ShownFields(WelcomeMessageOf(remote')) = ExampleSaved
       /\ \A m \in inflight :
            (/\ m.origin = "toggle"
             /\ ShownFields(WelcomeMessageOf(m.snapshot)) = ExampleSaved
             /\ ShownFields(WelcomeMessageOf(remote)) = ExampleSaved
             /\ Applied(m))
            => ShownFields(WelcomeMessageOf(remote'))
                    = [ExampleSaved EXCEPT !.enabled = TRUE]]_vars

C19_Witness ==
    /\ SetUpFirstNotice \in toasts
    /\ ev.name = "toggle"
    /\ ev.checked
    /\ inflight = {}
    /\ ShownFields(WelcomeMessageOf(remote)) = [ExampleSaved EXCEPT !.enabled = TRUE]
    /\ Leaf(WelcomeMessageOf(remote), "featuredMemberResolvedAvatarUrl") = "a1.png"

\* C20: the preview of a snapshot whose message is empty or undefined renders neither
\* the message block nor an avatar image, whatever the resolved avatar is; the preview
\* of a snapshot with a message renders the message block
C20_PreviewBlockIffMessage ==
    IF SnapshotMessage \in {Undef, ""}
    THEN ~RendersMessageBlock(settings) /\ ~RendersAvatarImage(settings)
    ELSE RendersMessageBlock(settings)

C20_Witness ==
    /\ SnapshotMessage = ""
    /\ PreviewAvatarUrl(settings) = "a1.png"
    /\ ~RendersMessageBlock(settings)
    /\ ev.name = "save"

\* C21 as claimed: once the store has taken a write, the remote settings are the
\* object of that write (with the avatar the server resolves)
C21_RemoteIsLastObject ==
    [][\A m \in inflight : Resolved(m, "ok") => remote' = ResolveAvatar(m.obj)]_vars

\* C21 as amended: a call that passes the checks adds its own write, merged from the
\* snapshot of that moment, to the writes in flight and leaves those alone; the store
\* taking a write leaves the other writes in flight, and afterwards the remote
\* settings have, for every top-level field the write's object carries, the object's
\* value, and for every other field the value they had
C21_LastWriteWinsPerField ==
    [][/\ (nUpdate' = nUpdate + 1 /\ PreconditionError = "")
            => \E m \in inflight' \ inflight :
                /\ inflight' = inflight \cup {m}
                /\ m.snapshot = settings
                /\ m.obj = Spread(settings, m.partial)
       /\ \A m \in inflight :
            Resolved(m, "ok")
            => /\ inflight' = inflight \ {m}
               /\ \A k \in DOMAIN m.obj : remote'[k] = ResolveAvatar(m.obj)[k]
               /\ \A k \in (DOMAIN remote) \ (DOMAIN m.obj) : remote'[k] = remote[k]]_vars

C21_Witness ==
    \E m1, m2 \in inflight :
        /\ m1.call = 1
        /\ m2.call = 2
        /\ m1.origin = "submitLink"
        /\ m2.origin = "update"
        /\ Loaded(m1.snapshot)
        /\ m1.snapshot = m2.snapshot
        /\ m1.obj.onboardingSettings.internalLink = "https://b"
        /\ m2.obj.onboardingSettings.internalLink = "https://a"
        /\ m1.obj.otherSettings = "o0"
        /\ m2.obj.otherSettings = "o1"

\* C22: the internal-link input is disabled exactly when some write is in flight or
\* the user is not an owner
C22_InputDisabledIffInFlight ==
    InternalLinkInputDisabled <=> (inflight # {} \/ ~isOwner)

\* C23: while a write made by the toggle or by the editor's Save is in flight, the
\* switch and the Edit button are disabled and Save does not take clicks, and no
\* second write of the toggle or of Save joins it
C23_WelcomeControlsSuspended ==
    [][/\ (\E m \in inflight' : m.origin \in {"toggle", "save"})
            => /\ SwitchDisabled'
               /\ EditDisabled'
               /\ EditorSaveDisabled'
       /\ (\E m \in inflight : m.origin \in {"toggle", "save"})
            => \A n \in inflight' \ inflight : n.origin \notin {"toggle", "save"}]_vars

\* C24: once the page is gone, no step, the resolution of a write that was in flight
\* included, changes the internal-link value, the editor-open flag, the draft message
\* or the draft featured member
C24_ResolutionAfterUnmountIsNoOp ==
    [][ev.name = "unmount"
        => /\ internalLink' = internalLink
           /\ welcomeMessageEditorOpen' = welcomeMessageEditorOpen
           /\ message' = message
           /\ featuredMemberId' = featuredMemberId]_vars

C24_Witness ==
    /\ ev.name = "unmount"
    /\ inflight = {}
    /\ outcome.write = "ok"
    /\ welcomeMessageEditorOpen
    /\ settings # remote

\* C25: "Disable image" leaves the draft featured member and the shown avatar empty;
\* choosing a member makes the draft featured member that member's id and the shown
\* avatar that member's avatar; neither makes a write, and the remote featured member
\* changes only in a step in which the store takes a write
C25_PickerSetsDraftOnly ==
    [][/\ Interaction("disableImage")
            => /\ Falsy(featuredMemberId')
               /\ Falsy(avatarUrl')
               /\ remote' = remote
               /\ inflight' = inflight
               /\ writes' = writes
       /\ Interaction("pickMember")
            => /\ \E m \in Members :
                    featuredMemberId' = m.userId /\ avatarUrl' = m.avatarUrl
               /\ remote' = remote
               /\ inflight' = inflight
               /\ writes' = writes
       /\ Leaf(WelcomeMessageOf(remote'), "featuredMemberId")
                # Leaf(WelcomeMessageOf(remote), "featuredMemberId")
            => \E m \in inflight : m \notin inflight']_vars

C25_Witness ==
    /\ ev.name = "disableImage"
    /\ Falsy(featuredMemberId)
    /\ Falsy(avatarUrl)
    /\ Leaf(WelcomeMessageOf(settings), "featuredMemberResolvedAvatarUrl") = "a1.png"
    /\ Leaf(WelcomeMessageOf(remote), "featuredMemberId") = "m1"
    /\ writes = 0

\* the writes issued through handleUpdateWelcomeMessage
ThroughHandleUpdateWelcomeMessage(m) ==
    variant = "field" /\ m.via = "update" /\ m.origin \in {"toggle", "save"}

\* C26 as claimed: the object sent for a toggle or an editor save of the field has the
\* snapshot's internal link in its onboardingSettings
C26_WelcomeUpdateKeepsInternalLink ==
    \A m \in inflight :
        ThroughHandleUpdateWelcomeMessage(m)
        => Leaf(OnboardingOf(m.obj), "internalLink")
                = Leaf(OnboardingOf(m.snapshot), "internalLink")

\* C26 as amended: the object sent for a toggle or an editor save of the field has an
\* onboardingSettings made of the welcome message and the snapshot's recommended
\* repositories alone, with no internal link, and every other top-level field of the
\* snapshot as the snapshot has it
C26_WelcomeUpdateDropsInternalLink ==
    \A m \in inflight :
        ThroughHandleUpdateWelcomeMessage(m)
        => /\ DOMAIN m.obj.onboardingSettings = {"welcomeMessage", "recommendedRepositories"}
           /\ m.obj.onboardingSettings = m.partial.onboardingSettings
           /\ m.obj.onboardingSettings.recommendedRepositories = RecommendedOf(m.snapshot)
           /\ \A k \in (DOMAIN m.snapshot) \ {"onboardingSettings"} : m.obj[k] = m.snapshot[k]

C26_Witness ==
    \E m \in inflight :
        /\ ThroughHandleUpdateWelcomeMessage(m)
        /\ m.origin = "save"
        /\ Loaded(m.snapshot)
        /\ m.snapshot.onboardingSettings.internalLink = "https://a"
        /\ "internalLink" \notin DOMAIN m.obj.onboardingSettings
        /\ m.obj.otherSettings = m.snapshot.otherSettings

\* C27: starting from a welcome message that is not enabled, whatever toggles and
\* editor saves are made, a remote welcome message that is enabled has a message
C27_EnabledHasMessage ==
    EnabledOf(WelcomeMessageOf(remote))
        => ~Falsy(Leaf(WelcomeMessageOf(remote), "message"))

\* C28: the join modal is visible only if localStorage is available and held "true"
\* under newUserOnboardingPending when the instance was created, the settings it is
\* handed have the welcome message enabled, and it has not been dismissed
C28_VisibleOnlyIfPendingEnabledUndismissed ==
    JoinModalVisible =>
        /\ storageAvailable
        /\ joinSeen.pending
        /\ JoinEnabled(orgSettings)
        /\ joinSeen.dismissed = "no"

C28_Witness ==
    /\ JoinModalVisible
    /\ joinSeen.instance = 2
    /\ newUserOnboardingPending = "true"

\* C29: once the modal has been dismissed with Get Started or by closing it, the
\* localStorage entry is gone and the modal is not visible, in that instance and in
\* every later one, whatever settings it is handed
C29_DismissedNeverVisibleAgain ==
    joinSeen.dismissed # "no" =>
        /\ newUserOnboardingPending = Undef
        /\ ~orgOnboardingPending
        /\ ~JoinModalVisible

C29_Witness ==
    /\ joinSeen.dismissed # "no"
    /\ joinSeen.instance > 1
    /\ JoinEnabled(orgSettings)

\* C30: once the modal has been handed settings whose welcome message is not enabled
\* (false or missing), the pending flag is cleared in localStorage and in local state
\* and the modal is not shown, also when the welcome message is enabled later
C30_NotEnabledClearsPending ==
    joinSeen.notEnabled =>
        /\ newUserOnboardingPending = Undef
        /\ ~orgOnboardingPending
        /\ ~JoinModalVisible

C30_Witness ==
    /\ joinSeen.notEnabled
    /\ joinSeen.pending
    /\ joinSeen.dismissed = "no"
    /\ JoinEnabled(orgSettings)

====
